---- MODULE Spec2Model ----
(***************************************************************************)
(* Model of model/dataset.py: class Dataset, the partition selector that   *)
(* resolves file lists and hands batch policies to genUnbalSequence.       *)
(*                                                                         *)
(* A policy is the record of arguments of one genUnbalSequence(...) call.  *)
(* The file system is a fixed tree of leaf directories holding .wav files; *)
(* glob.glob(root + "**/*.wav", recursive=True) is the set of files below  *)
(* a path prefix and sorted(...) orders it by full path.                    *)
(***************************************************************************)
EXTENDS Integers, Sequences, FiniteSets, TLC

\* ------------------------------------------------------------- bounds
\* files per leaf directory
PoolSize == 2
\* largest batch size / anchor count a configuration holds
MaxBsz == 2
\* largest reduce_items_p argument (an abstract fraction index)
MaxReduce == 1

\* ------------------------------------------------------ python values
\* Python None against a present value (a list, a range, a number)
None == [some |-> FALSE, val |-> <<>>]
Some(v) == [some |-> TRUE, val |-> v]

\* a keyword argument the call site leaves to the generator's default
Default == "default"
PyTrue == "True"
PyFalse == "False"

\* ------------------------------------------------------- file system
\* leaf directories, listed in lexicographic order of their full path
Dirs ==
  << <<"bg", "tr">>, <<"bg", "ts">>,
     <<"custom">>,
     <<"ir", "tr">>, <<"ir", "ts">>,
     <<"mix">>,
     <<"source", "test-dummy-db-100k-full">>,
     <<"source", "test-query-db-500-30s", "db">>,
     <<"source", "test-query-db-500-30s", "query">>,
     <<"source", "train-10k-30s">>,
     <<"source", "val-query-db-500-30s", "db">>,
     <<"source", "val-query-db-500-30s", "query">>,
     <<"speech", "dev">>, <<"speech", "test">>, <<"speech", "train">> >>

\* a .wav file is <<index of its directory in Dirs, index of its name>>
Files == (1..Len(Dirs)) \X (1..PoolSize)

\* order of two paths as Python compares the path strings
PathLess(a, b) == a[1] < b[1] \/ (a[1] = b[1] /\ a[2] < b[2])

IsPrefix(p, d) == Len(p) <= Len(d) /\ SubSeq(d, 1, Len(p)) = p

\* glob.glob(<prefix> + "**/*.wav", recursive=True): an unordered listing
Glob(prefix) == {f \in Files : IsPrefix(prefix, Dirs[f[1]])}

RECURSIVE Sorted(_)
\* sorted(glob.glob(...)): ascending by path
Sorted(S) ==
  IF S = {} THEN <<>>
  ELSE LET m == CHOOSE x \in S : \A y \in S : x = y \/ PathLess(x, y)
       IN  <<m>> \o Sorted(S \ {m})

\* seq[:n] for n >= 0
Take(s, n) == SubSeq(s, 1, IF n < Len(s) THEN n ELSE Len(s))

\* ------------------------------------------------- data-selection tags
TrainTags == {"10k_icassp", "audible", "bogus"}
DummyTags == {"10k_full", "10k_30s", "100k_full_icassp", "1", "bogus"}
QueryTags == {"unseen_icassp", "unseen_syn", "bogus"}

\* the characters of the tags the model draws
Chars(t) ==
  CASE t = "1" -> <<"1">>
    [] t = "10k_full" -> <<"1", "0", "k", "_", "f", "u", "l", "l">>
    [] t = "10k_30s" -> <<"1", "0", "k", "_", "3", "0", "s">>
    [] t = "100k_full_icassp" ->
         <<"1", "0", "0", "k", "_", "f", "u", "l", "l", "_",
           "i", "c", "a", "s", "s", "p">>
    [] OTHER -> <<"b", "o", "g", "u", "s">>

Digits == {"0", "1", "2", "3", "4", "5", "6", "7", "8", "9"}

\* str.isnumeric(): non-empty and every character numeric
IsNumeric(t) ==
  LET c == Chars(t) IN Len(c) > 0 /\ \A i \in 1..Len(c) : c[i] \in Digits

DigitVal(ch) ==
  CASE ch = "0" -> 0 [] ch = "1" -> 1 [] ch = "2" -> 2 [] ch = "3" -> 3
    [] ch = "4" -> 4 [] ch = "5" -> 5 [] ch = "6" -> 6 [] ch = "7" -> 7
    [] ch = "8" -> 8 [] OTHER -> 9

RECURSIVE IntOfChars(_)
IntOfChars(c) ==
  IF c = <<>> THEN 0
  ELSE IntOfChars(SubSeq(c, 1, Len(c) - 1)) * 10 + DigitVal(c[Len(c)])

\* int(<numeric string>)
IntOf(t) == IntOfChars(Chars(t))

\* truncation count of the small dummy-database tags
SmallCount == 10000

\* default of get_val_ds(max_song=500)
DefaultMaxSong == 500

\* ----------------------------------------------------- configuration
ToggleNames ==
  {"tr_use_bg_aug", "ts_use_bg_aug", "val_use_bg_aug",
   "tr_use_ir_aug", "ts_use_ir_aug", "val_use_ir_aug",
   "tr_use_speech_aug", "ts_use_speech_aug", "val_use_speech_aug"}

\* cfg["DIR"], cfg["MODEL"], cfg["TD_AUG"][*_SNR]: held fixed
FixedCfg ==
  [source_root_dir |-> <<"source">>, mix_root_dir |-> <<"mix">>,
   bg_root_dir |-> <<"bg">>, ir_root_dir |-> <<"ir">>,
   speech_root_dir |-> <<"speech">>,
   dur |-> 1, hop |-> 1, fs |-> 8000,
   tr_snr |-> <<0, 10>>, ts_snr |-> <<1, 10>>, val_snr |-> <<2, 10>>]

TrToggles == {"tr_use_bg_aug", "tr_use_ir_aug", "tr_use_speech_aug"}
TsToggles == {"ts_use_bg_aug", "ts_use_ir_aug", "ts_use_speech_aug"}
ValToggles == {"val_use_bg_aug", "val_use_ir_aug", "val_use_speech_aug"}

BaseTags ==
  [datasel_train |-> "audible", datasel_test_dummy_db |-> "10k_full",
   datasel_test_query_db |-> "unseen_syn"]

BaseSizes ==
  [tr_batch_sz |-> MaxBsz, tr_n_anchor |-> 1, val_batch_sz |-> MaxBsz,
   val_n_anchor |-> MaxBsz, ts_batch_sz |-> 1]

BaseToggles == [n \in ToggleNames |-> TRUE]

\* every combination of the three data-selection tags
TagCfgs ==
  [datasel_train : TrainTags, datasel_test_dummy_db : DummyTags,
   datasel_test_query_db : QueryTags]

\* the sizes of one split take every combination, the others their base
SizeCfgs ==
  {[BaseSizes EXCEPT !.tr_batch_sz = b, !.tr_n_anchor = a] :
     b \in 1..MaxBsz, a \in 1..MaxBsz}
  \cup {[BaseSizes EXCEPT !.val_batch_sz = b, !.val_n_anchor = a] :
          b \in 1..MaxBsz, a \in 1..MaxBsz}
  \cup {[BaseSizes EXCEPT !.ts_batch_sz = b] : b \in 1..MaxBsz}

\* the toggles of one split take every combination, the toggles of the
\* other two splits are all on or all off
ToggleCfgs ==
  {g \in [ToggleNames -> BOOLEAN] :
     \E S \in {TrToggles, TsToggles, ValToggles} : \E u \in BOOLEAN :
       \A n \in ToggleNames \ S : g[n] = u}

\* The configurations the model draws: one group of keys (tags, sizes,
\* toggles) varies while the other two groups sit at their base values.
Configs ==
  {t @@ BaseSizes @@ BaseToggles @@ FixedCfg : t \in TagCfgs}
  \cup {BaseTags @@ z @@ BaseToggles @@ FixedCfg : z \in SizeCfgs}
  \cup {BaseTags @@ BaseSizes @@ g @@ FixedCfg : g \in ToggleCfgs}

\* ------------------------------------------------------------- state
VARIABLES
  cfg,
  tr_bg_fps, ts_bg_fps, val_bg_fps,
  tr_ir_fps, ts_ir_fps, val_ir_fps,
  tr_speech_fps, ts_speech_fps, val_speech_fps,
  tr_source_fps, val_source_fps, tr_mix_fps, val_mix_fps,
  ts_dummy_db_source_fps,
  ts_query_icassp_fps, ts_db_icassp_fps,
  ts_query_db_unseen_fps,
  call, ret, scanned

augVars ==
  <<tr_bg_fps, ts_bg_fps, val_bg_fps, tr_ir_fps, ts_ir_fps, val_ir_fps,
    tr_speech_fps, ts_speech_fps, val_speech_fps>>

srcVars ==
  <<tr_source_fps, val_source_fps, tr_mix_fps, val_mix_fps,
    ts_dummy_db_source_fps, ts_query_icassp_fps, ts_db_icassp_fps,
    ts_query_db_unseen_fps>>

vars == <<cfg, augVars, srcVars, call, ret, scanned>>

\* the attributes __init__ sets on self
Attributes ==
  DOMAIN FixedCfg \cup DOMAIN BaseTags \cup DOMAIN BaseSizes \cup ToggleNames
  \cup {"tr_bg_fps", "ts_bg_fps", "val_bg_fps", "tr_ir_fps", "ts_ir_fps",
        "val_ir_fps", "tr_speech_fps", "ts_speech_fps", "val_speech_fps",
        "tr_source_fps", "val_source_fps", "tr_mix_fps", "val_mix_fps",
        "ts_dummy_db_source_fps", "ts_query_icassp_fps", "ts_db_icassp_fps",
        "ts_query_db_unseen_fps"}

\* ------------------------------------------- genUnbalSequence arguments
NoneNum == [some |-> FALSE, val |-> 0]
SomeNum(n) == [some |-> TRUE, val |-> n]
NoneStr == [some |-> FALSE, val |-> ""]
SomeStr(t) == [some |-> TRUE, val |-> t]

\* an augmentation parameter list as the call site writes it
NotPassed ==
  [passed |-> FALSE, len |-> 0, enabled |-> FALSE, fps |-> None, snr |-> None]
MixParam3(e, f, r) ==
  [passed |-> TRUE, len |-> 3, enabled |-> e, fps |-> f, snr |-> Some(r)]
MixParam2(e, f) ==
  [passed |-> TRUE, len |-> 2, enabled |-> e, fps |-> f, snr |-> None]
MixParam1(e) ==
  [passed |-> TRUE, len |-> 1, enabled |-> e, fps |-> None, snr |-> None]

\* keyword arguments a call site does not pass
KwDefaults ==
  [fns_mix |-> None,
   bg_mix_parameter |-> NotPassed, ir_mix_parameter |-> NotPassed,
   speech_mix_parameter |-> NotPassed,
   reduce_items_p |-> NoneNum,
   reduce_batch_first_half |-> Default,
   drop_the_last_non_full_batch |-> Default]

\* one genUnbalSequence(...) call: the policy handed to the generator
genUnbalSequence(fns, bsz, n_anchor, dur, hop, fs, kw) ==
  kw @@ KwDefaults @@
  [fns |-> fns, bsz |-> bsz, n_anchor |-> n_anchor,
   dur |-> dur, hop |-> hop, fs |-> fs]

\* ------------------------------------------------------- constructor
\* __set_augmentation_fps: the nine lists, each left None or resolved
set_augmentation_fps(c) ==
  [tr_bg_fps |-> IF c.tr_use_bg_aug
                 THEN Some(Sorted(Glob(c.bg_root_dir \o <<"tr">>))) ELSE None,
   ts_bg_fps |-> IF c.ts_use_bg_aug
                 THEN Some(Sorted(Glob(c.bg_root_dir \o <<"ts">>))) ELSE None,
   val_bg_fps |-> IF c.val_use_bg_aug
                  THEN Some(Sorted(Glob(c.bg_root_dir \o <<"tr">>))) ELSE None,
   tr_ir_fps |-> IF c.tr_use_ir_aug
                 THEN Some(Sorted(Glob(c.ir_root_dir \o <<"tr">>))) ELSE None,
   ts_ir_fps |-> IF c.ts_use_ir_aug
                 THEN Some(Sorted(Glob(c.ir_root_dir \o <<"ts">>))) ELSE None,
   val_ir_fps |-> IF c.val_use_ir_aug
                  THEN Some(Sorted(Glob(c.ir_root_dir \o <<"tr">>))) ELSE None,
   tr_speech_fps |-> IF c.tr_use_speech_aug
                     THEN Some(Sorted(Glob(c.speech_root_dir \o <<"train">>)))
                     ELSE None,
   ts_speech_fps |-> Some(Sorted(Glob(c.speech_root_dir \o <<"test">>))),
   val_speech_fps |-> IF c.val_use_speech_aug
                      THEN Some(Sorted(Glob(c.speech_root_dir \o <<"dev">>)))
                      ELSE None]

\* the directories __set_augmentation_fps scans
AugScans(c) ==
  (IF c.tr_use_bg_aug \/ c.val_use_bg_aug
   THEN {c.bg_root_dir \o <<"tr">>} ELSE {})
  \cup (IF c.ts_use_bg_aug THEN {c.bg_root_dir \o <<"ts">>} ELSE {})
  \cup (IF c.tr_use_ir_aug \/ c.val_use_ir_aug
        THEN {c.ir_root_dir \o <<"tr">>} ELSE {})
  \cup (IF c.ts_use_ir_aug THEN {c.ir_root_dir \o <<"ts">>} ELSE {})
  \cup (IF c.tr_use_speech_aug
        THEN {c.speech_root_dir \o <<"train">>} ELSE {})
  \cup {c.speech_root_dir \o <<"test">>}
  \cup (IF c.val_use_speech_aug
        THEN {c.speech_root_dir \o <<"dev">>} ELSE {})

NoArgs ==
  [reduce_items_p |-> 0, max_song |-> 0, datasel |-> NoneStr,
   source |-> "", isdir |-> FALSE]

Call(op, args) == [op |-> op] @@ args @@ NoArgs

Returned(ds) == [exc |-> "none", ds |-> ds]
Raised(e) == [exc |-> e, ds |-> <<>>]

\* the state Dataset(cfg) leaves
Init ==
  /\ cfg \in Configs
  /\ LET a == set_augmentation_fps(cfg) IN
       /\ tr_bg_fps = a.tr_bg_fps
       /\ ts_bg_fps = a.ts_bg_fps
       /\ val_bg_fps = a.val_bg_fps
       /\ tr_ir_fps = a.tr_ir_fps
       /\ ts_ir_fps = a.ts_ir_fps
       /\ val_ir_fps = a.val_ir_fps
       /\ tr_speech_fps = a.tr_speech_fps
       /\ ts_speech_fps = a.ts_speech_fps
       /\ val_speech_fps = a.val_speech_fps
  /\ tr_source_fps = None /\ val_source_fps = None
  /\ tr_mix_fps = None /\ val_mix_fps = None
  /\ ts_dummy_db_source_fps = None
  /\ ts_query_icassp_fps = None /\ ts_db_icassp_fps = None
  /\ ts_query_db_unseen_fps = None
  /\ call = Call("__init__", NoArgs)
  /\ ret = Returned(<<>>)
  /\ scanned = AugScans(cfg)

\* -------------------------------------------------------- get_train_ds
TrainPolicy(c, src, mix, bg, ir, speech, reduce_items_p) ==
  genUnbalSequence(src, c.tr_batch_sz, c.tr_n_anchor, c.dur, c.hop, c.fs,
    [fns_mix |-> Some(mix),
     shuffle |-> TRUE, random_offset_anchor |-> TRUE,
     bg_mix_parameter |-> MixParam3(c.tr_use_bg_aug, bg, c.tr_snr),
     ir_mix_parameter |-> MixParam2(c.tr_use_ir_aug, ir),
     speech_mix_parameter |->
       MixParam3(c.tr_use_speech_aug, speech, c.tr_snr),
     reduce_items_p |-> SomeNum(reduce_items_p)])

get_train_ds(reduce_items_p) ==
  /\ call' = Call("get_train_ds", [reduce_items_p |-> reduce_items_p])
  /\ IF cfg.datasel_train \in {"10k_icassp", "audible"}
     THEN LET src == Sorted(Glob(cfg.source_root_dir))
              mix == Sorted(Glob(cfg.mix_root_dir))
          IN  /\ tr_source_fps' = Some(src)
              /\ tr_mix_fps' = Some(mix)
              /\ scanned' = {cfg.source_root_dir, cfg.mix_root_dir}
              /\ ret' = Returned(<<TrainPolicy(cfg, src, mix, tr_bg_fps,
                                    tr_ir_fps, tr_speech_fps,
                                    reduce_items_p)>>)
     ELSE /\ ret' = Raised("NotImplementedError")
          /\ scanned' = {}
          /\ UNCHANGED <<tr_source_fps, tr_mix_fps>>
  /\ UNCHANGED <<cfg, augVars, val_source_fps, val_mix_fps,
                 ts_dummy_db_source_fps, ts_query_icassp_fps,
                 ts_db_icassp_fps, ts_query_db_unseen_fps>>

\* ---------------------------------------------------------- get_val_ds
ValPolicy(c, src, bg, ir, speech) ==
  genUnbalSequence(src, c.val_batch_sz, c.val_n_anchor, c.dur, c.hop, c.fs,
    [shuffle |-> FALSE, random_offset_anchor |-> FALSE,
     bg_mix_parameter |-> MixParam3(c.val_use_bg_aug, bg, c.val_snr),
     ir_mix_parameter |-> MixParam2(c.val_use_ir_aug, ir),
     speech_mix_parameter |->
       MixParam3(c.val_use_speech_aug, speech, c.val_snr)])

\* get_val_ds resolving the validation background list again, as a lazy
\* memoization placed in the operation would
get_val_ds_Rescan(max_song) ==
  LET dir == cfg.source_root_dir \o <<"val-query-db-500-30s">>
      src == Take(Sorted(Glob(dir)), max_song)
      bg == Some(Sorted(Glob(cfg.bg_root_dir \o <<"tr">>)))
  IN  /\ call' = Call("get_val_ds", [max_song |-> max_song])
      /\ val_source_fps' = Some(src)
      /\ val_bg_fps' = bg
      /\ scanned' = {dir, cfg.bg_root_dir \o <<"tr">>}
      /\ ret' = Returned(<<ValPolicy(cfg, src, bg, val_ir_fps,
                            val_speech_fps)>>)
      /\ UNCHANGED <<cfg, tr_bg_fps, ts_bg_fps, tr_ir_fps, ts_ir_fps,
                     val_ir_fps, tr_speech_fps, ts_speech_fps,
                     val_speech_fps, tr_source_fps, tr_mix_fps, val_mix_fps,
                     ts_dummy_db_source_fps, ts_query_icassp_fps,
                     ts_db_icassp_fps, ts_query_db_unseen_fps>>

get_val_ds(max_song) ==
  LET dir == cfg.source_root_dir \o <<"val-query-db-500-30s">>
      src == Take(Sorted(Glob(dir)), max_song)
  IN  /\ call' = Call("get_val_ds", [max_song |-> max_song])
      /\ val_source_fps' = Some(src)
      /\ scanned' = {dir}
      /\ ret' = Returned(<<ValPolicy(cfg, src, val_bg_fps, val_ir_fps,
                            val_speech_fps)>>)
      /\ UNCHANGED <<cfg, augVars, tr_source_fps, tr_mix_fps, val_mix_fps,
                     ts_dummy_db_source_fps, ts_query_icassp_fps,
                     ts_db_icassp_fps, ts_query_db_unseen_fps>>

\* ------------------------------------------------ get_test_dummy_db_ds
\* the tag-driven truncation of the freshly scanned pool: the exception
\* the branch ends in ("none" when it completes) and the list it leaves
DummyDbSelect(c, pool) ==
  IF c.datasel_test_dummy_db \in {"10k_full", "10k_30s"}
  THEN [exc |-> "none", fps |-> Take(pool, SmallCount)]
  ELSE IF c.datasel_test_dummy_db = "100k_full_icassp"
  THEN [exc |-> "none", fps |-> pool]
  ELSE IF IsNumeric(c.datasel_test_dummy_db)
  THEN IF "datasel_test_db" \in Attributes
       THEN [exc |-> "none", fps |-> Take(pool, IntOf(c["datasel_test_db"]))]
       ELSE [exc |-> "AttributeError", fps |-> pool]
  ELSE [exc |-> "NotImplementedError", fps |-> pool]

\* the dummy-database policy without drop_the_last_non_full_batch=False
DummyDbPolicy_DropDefault(c, fps) ==
  genUnbalSequence(fps, c.ts_batch_sz, c.ts_batch_sz, c.dur, c.hop, c.fs,
    [shuffle |-> FALSE, random_offset_anchor |-> FALSE])

DummyDbPolicy(c, fps) ==
  genUnbalSequence(fps, c.ts_batch_sz, c.ts_batch_sz, c.dur, c.hop, c.fs,
    [shuffle |-> FALSE, random_offset_anchor |-> FALSE,
     drop_the_last_non_full_batch |-> PyFalse])

get_test_dummy_db_ds ==
  LET dir == cfg.source_root_dir \o <<"test-dummy-db-100k-full">>
      sel == DummyDbSelect(cfg, Sorted(Glob(dir)))
  IN  /\ call' = Call("get_test_dummy_db_ds", NoArgs)
      /\ ts_dummy_db_source_fps' = Some(sel.fps)
      /\ scanned' = {dir}
      /\ ret' = IF sel.exc = "none"
                THEN Returned(<<DummyDbPolicy(cfg, sel.fps)>>)
                ELSE Raised(sel.exc)
      /\ UNCHANGED <<cfg, augVars, tr_source_fps, val_source_fps,
                     tr_mix_fps, val_mix_fps, ts_query_icassp_fps,
                     ts_db_icassp_fps, ts_query_db_unseen_fps>>

\* ------------------------------------------------ get_test_query_db_ds
\* truth value of the datasel argument: None and "" are falsy
Truthy(datasel) == datasel.some /\ datasel.val # ""

IcasspQueryPolicy(c, fps) ==
  genUnbalSequence(fps, c.ts_batch_sz, c.ts_batch_sz, c.dur, c.hop, c.fs,
    [shuffle |-> FALSE, random_offset_anchor |-> FALSE,
     drop_the_last_non_full_batch |-> PyFalse])

IcasspDbPolicy(c, fps) ==
  genUnbalSequence(fps, c.ts_batch_sz, c.ts_batch_sz, c.dur, c.hop, c.fs,
    [shuffle |-> FALSE, random_offset_anchor |-> FALSE,
     drop_the_last_non_full_batch |-> PyFalse])

\* the synthesized query policy with the batch size left undoubled
SynQueryPolicy_SameBatch(c, fps, bg, ir) ==
  genUnbalSequence(fps, c.ts_batch_sz, c.ts_batch_sz,
    c.dur, c.hop, c.fs,
    [shuffle |-> FALSE, random_offset_anchor |-> FALSE,
     bg_mix_parameter |-> MixParam3(c.ts_use_bg_aug, bg, c.ts_snr),
     ir_mix_parameter |-> MixParam2(c.ts_use_ir_aug, ir),
     speech_mix_parameter |-> MixParam1(FALSE),
     reduce_batch_first_half |-> PyTrue,
     drop_the_last_non_full_batch |-> PyFalse])

\* the synthesized query policy reading the training background toggle
SynQueryPolicy_TrainToggle(c, fps, bg, ir) ==
  genUnbalSequence(fps, c.ts_batch_sz * 2, c.ts_batch_sz,
    c.dur, c.hop, c.fs,
    [shuffle |-> FALSE, random_offset_anchor |-> FALSE,
     bg_mix_parameter |-> MixParam3(c.tr_use_bg_aug, bg, c.ts_snr),
     ir_mix_parameter |-> MixParam2(c.ts_use_ir_aug, ir),
     speech_mix_parameter |-> MixParam1(FALSE),
     reduce_batch_first_half |-> PyTrue,
     drop_the_last_non_full_batch |-> PyFalse])

SynQueryPolicy(c, fps, bg, ir) ==
  genUnbalSequence(fps, c.ts_batch_sz * 2, c.ts_batch_sz,
    c.dur, c.hop, c.fs,
    [shuffle |-> FALSE, random_offset_anchor |-> FALSE,
     bg_mix_parameter |-> MixParam3(c.ts_use_bg_aug, bg, c.ts_snr),
     ir_mix_parameter |-> MixParam2(c.ts_use_ir_aug, ir),
     speech_mix_parameter |-> MixParam1(FALSE),
     reduce_batch_first_half |-> PyTrue,
     drop_the_last_non_full_batch |-> PyFalse])

SynDbPolicy(c, fps) ==
  genUnbalSequence(fps, c.ts_batch_sz, c.ts_batch_sz, c.dur, c.hop, c.fs,
    [shuffle |-> FALSE, random_offset_anchor |-> FALSE,
     drop_the_last_non_full_batch |-> PyFalse])

get_test_query_db_ds(datasel) ==
  /\ call' = Call("get_test_query_db_ds", [datasel |-> datasel])
  /\ IF Truthy(datasel) /\ "datasel" \notin Attributes
     THEN /\ ret' = Raised("AttributeError")
          /\ scanned' = {}
          /\ UNCHANGED <<ts_query_icassp_fps, ts_db_icassp_fps,
                         ts_query_db_unseen_fps>>
     ELSE IF cfg.datasel_test_query_db = "unseen_icassp"
     THEN LET qdir == cfg.source_root_dir
                        \o <<"test-query-db-500-30s", "query">>
              ddir == cfg.source_root_dir
                        \o <<"test-query-db-500-30s", "db">>
              q == Sorted(Glob(qdir))
              d == Sorted(Glob(ddir))
          IN  /\ ts_query_icassp_fps' = Some(q)
              /\ ts_db_icassp_fps' = Some(d)
              /\ scanned' = {qdir, ddir}
              /\ ret' = Returned(<<IcasspQueryPolicy(cfg, q),
                                   IcasspDbPolicy(cfg, d)>>)
              /\ UNCHANGED ts_query_db_unseen_fps
     ELSE IF cfg.datasel_test_query_db = "unseen_syn"
     THEN LET dir == cfg.source_root_dir
                       \o <<"val-query-db-500-30s", "db">>
              fps == Sorted(Glob(dir))
          IN  /\ ts_query_db_unseen_fps' = Some(fps)
              /\ scanned' = {dir}
              /\ ret' = Returned(<<SynQueryPolicy(cfg, fps, ts_bg_fps,
                                                  ts_ir_fps),
                                   SynDbPolicy(cfg, fps)>>)
              /\ UNCHANGED <<ts_query_icassp_fps, ts_db_icassp_fps>>
     ELSE /\ ret' = Raised("NotImplementedError")
          /\ scanned' = {}
          /\ UNCHANGED <<ts_query_icassp_fps, ts_db_icassp_fps,
                         ts_query_db_unseen_fps>>
  /\ UNCHANGED <<cfg, augVars, tr_source_fps, val_source_fps, tr_mix_fps,
                 val_mix_fps, ts_dummy_db_source_fps>>

\* ---------------------------------------------------- get_custom_db_ds
\* the source arguments drawn: a directory of .wav files, a directory
\* without any, a path that does not exist, and two manifest files
Sources == {"custom", "empty_dir", "missing", "list.txt", "empty.txt"}
ExistingDirs == {"custom", "empty_dir"}
ManifestFiles == {"list.txt", "empty.txt"}

CustomDir == CHOOSE i \in 1..Len(Dirs) : Dirs[i] = <<"custom">>

\* the lines of a manifest as iterating the open file yields them: the
\* path text and whether a newline ends the line. list.txt names the
\* custom files in descending order; its last line has no newline.
ManifestLines(source) ==
  IF source = "list.txt"
  THEN [i \in 1..PoolSize |->
          [text |-> <<CustomDir, PoolSize + 1 - i>>, nl |-> i < PoolSize]]
  ELSE <<>>

\* l.split("\n")[0]
StripNewline(l) == l.text

\* the exception open(source, "r") raises, "none" when it opens
OpenExc(source) ==
  IF source \in ManifestFiles THEN "none"
  ELSE IF source \in ExistingDirs THEN "IsADirectoryError"
  ELSE "FileNotFoundError"

CustomFps(source, isdir) ==
  IF isdir
  THEN Sorted(Glob(<<source>>))
  ELSE LET lines == ManifestLines(source)
       IN  SortSeq([i \in 1..Len(lines) |-> StripNewline(lines[i])],
                   PathLess)

CustomPolicy(c, fps) ==
  genUnbalSequence(fps, c.ts_batch_sz, c.ts_batch_sz, c.dur, c.hop, c.fs,
    [shuffle |-> FALSE, random_offset_anchor |-> FALSE,
     drop_the_last_non_full_batch |-> PyFalse])

get_custom_db_ds(source, isdir) ==
  /\ call' = Call("get_custom_db_ds", [source |-> source, isdir |-> isdir])
  /\ scanned' = IF isdir THEN {<<source>>} ELSE {}
  /\ ret' = IF ~isdir /\ OpenExc(source) # "none"
            THEN Raised(OpenExc(source))
            ELSE Returned(<<CustomPolicy(cfg, CustomFps(source, isdir))>>)
  /\ UNCHANGED <<cfg, augVars, srcVars>>

\* ------------------------------------------------------ specification
MaxSongs == {0, 1, DefaultMaxSong}
DataselArgs == {NoneStr, SomeStr(""), SomeStr("unseen_syn")}

Next ==
  \/ \E r \in 0..MaxReduce : get_train_ds(r)
  \/ \E m \in MaxSongs : get_val_ds(m)
  \/ get_test_dummy_db_ds
  \/ \E d \in DataselArgs : get_test_query_db_ds(d)
  \/ \E s \in Sources, b \in BOOLEAN : get_custom_db_ds(s, b)

Spec == Init /\ [][Next]_vars

\* =============================================================== claims
Ok == ret.exc = "none"
Policy(i) == ret.ds[i]
After(op) == call.op = op

DummyDir == cfg.source_root_dir \o <<"test-dummy-db-100k-full">>
SynDir == cfg.source_root_dir \o <<"val-query-db-500-30s", "db">>

TagUnsupported(c, op) ==
  CASE op = "get_train_ds" ->
         c.datasel_train \notin {"10k_icassp", "audible"}
    [] op = "get_test_dummy_db_ds" ->
         /\ c.datasel_test_dummy_db
              \notin {"10k_full", "10k_30s", "100k_full_icassp"}
         /\ ~IsNumeric(c.datasel_test_dummy_db)
    [] op = "get_test_query_db_ds" ->
         c.datasel_test_query_db \notin {"unseen_icassp", "unseen_syn"}
    [] OTHER -> FALSE

\* C1: a tag-driven operation called with an unrecognized tag fails with
\* the unsupported-selection error and leaves every file-list field of the
\* selector as it was before the call (get_test_query_db_ds taken with its
\* datasel argument left falsy, as its default is).
C1_UnsupportedTagNoSideEffects ==
  [][(TagUnsupported(cfg, call'.op) /\ ~Truthy(call'.datasel)) =>
       /\ ret'.exc = "NotImplementedError"
       /\ UNCHANGED <<tr_source_fps, tr_mix_fps, ts_dummy_db_source_fps,
                      ts_query_icassp_fps, ts_db_icassp_fps,
                      ts_query_db_unseen_fps>>]_vars

AbsentWhenOff(toggle, param) ==
  ~toggle => (param.fps = None /\ param.snr = None)

\* C2: a toggle that is off leaves the stored file list of its split and
\* kind None after construction, and the parameter triple of that kind in
\* every policy of get_train_ds, get_val_ds and get_test_query_db_ds
\* carries a None file list and a None SNR range.
C2_DisabledToggleAbsent ==
  /\ ~cfg.tr_use_bg_aug => tr_bg_fps = None
  /\ ~cfg.ts_use_bg_aug => ts_bg_fps = None
  /\ ~cfg.val_use_bg_aug => val_bg_fps = None
  /\ ~cfg.tr_use_ir_aug => tr_ir_fps = None
  /\ ~cfg.ts_use_ir_aug => ts_ir_fps = None
  /\ ~cfg.val_use_ir_aug => val_ir_fps = None
  /\ ~cfg.tr_use_speech_aug => tr_speech_fps = None
  /\ ~cfg.ts_use_speech_aug => ts_speech_fps = None
  /\ ~cfg.val_use_speech_aug => val_speech_fps = None
  /\ (After("get_train_ds") /\ Ok) =>
       /\ AbsentWhenOff(cfg.tr_use_bg_aug, Policy(1).bg_mix_parameter)
       /\ AbsentWhenOff(cfg.tr_use_ir_aug, Policy(1).ir_mix_parameter)
       /\ AbsentWhenOff(cfg.tr_use_speech_aug,
                        Policy(1).speech_mix_parameter)
  /\ (After("get_val_ds") /\ Ok) =>
       /\ AbsentWhenOff(cfg.val_use_bg_aug, Policy(1).bg_mix_parameter)
       /\ AbsentWhenOff(cfg.val_use_ir_aug, Policy(1).ir_mix_parameter)
       /\ AbsentWhenOff(cfg.val_use_speech_aug,
                        Policy(1).speech_mix_parameter)
  /\ (After("get_test_query_db_ds") /\ Ok) =>
       \A i \in 1..Len(ret.ds) :
         /\ AbsentWhenOff(cfg.ts_use_bg_aug, Policy(i).bg_mix_parameter)
         /\ AbsentWhenOff(cfg.ts_use_ir_aug, Policy(i).ir_mix_parameter)
         /\ AbsentWhenOff(cfg.ts_use_speech_aug,
                          Policy(i).speech_mix_parameter)

\* C3: every policy handed to the batch generator has an anchor count that
\* is at most its batch size.
C3_AnchorAtMostBatch ==
  \A i \in 1..Len(ret.ds) : Policy(i).n_anchor <= Policy(i).bsz

\* C4: get_test_dummy_db_ds on the sorted pool returns the first
\* min(P, 10000) files for a small tag, the whole pool for the full tag,
\* the first min(P, n) files for the decimal string of n, and fails with the
\* unsupported-selection error for any other tag.
C4_DummyDbTruncation ==
  After("get_test_dummy_db_ds") =>
    LET pool == Sorted(Glob(DummyDir))
        tag == cfg.datasel_test_dummy_db
    IN  IF tag \in {"10k_full", "10k_30s"}
        THEN Ok /\ Policy(1).fns = Take(pool, 10000)
        ELSE IF tag = "100k_full_icassp"
        THEN Ok /\ Policy(1).fns = pool
        ELSE IF IsNumeric(tag)
        THEN Ok /\ Policy(1).fns = Take(pool, IntOf(tag))
        ELSE ret.exc = "NotImplementedError"

SynCall ==
  /\ After("get_test_query_db_ds")
  /\ cfg.datasel_test_query_db = "unseen_syn"
  /\ ~Truthy(call.datasel)

SourceMatchesForm ==
  call.source \in (IF call.isdir THEN ExistingDirs ELSE ManifestFiles)
                    \cup {"missing"}

\* C6: get_custom_db_ds fails with the source-not-found error and builds no
\* generator when the resolved list is empty or the directory or manifest
\* does not exist; for a manifest of N lines it returns a policy over
\* exactly those N paths, ascending.
C6_CustomSource ==
  (After("get_custom_db_ds") /\ SourceMatchesForm) =>
    LET lines == ManifestLines(call.source)
        nofile == IF call.isdir
                  THEN call.source \notin ExistingDirs
                  ELSE call.source \notin ManifestFiles
        empty == IF call.isdir
                 THEN Glob(<<call.source>>) = {}
                 ELSE Len(lines) = 0
    IN  IF nofile \/ empty
        THEN ret.exc = "FileNotFoundError" /\ ret.ds = <<>>
        ELSE /\ Ok
             /\ ~call.isdir =>
                  /\ Len(Policy(1).fns) = Len(lines)
                  /\ \A i \in 1..Len(lines) :
                       \E j \in 1..Len(lines) :
                         Policy(1).fns[j] = lines[i].text
                  /\ \A i \in 1..(Len(lines) - 1) :
                       ~PathLess(Policy(1).fns[i + 1], Policy(1).fns[i])

C8_TrainScansOnce ==
  [][(call'.op = "get_train_ds" /\ ret'.exc = "none") =>
       /\ tr_source_fps.some => cfg.source_root_dir \notin scanned'
       /\ tr_mix_fps.some => cfg.mix_root_dir \notin scanned'
       /\ ret'.ds[1].reduce_items_p = SomeNum(call'.reduce_items_p)]_vars

PassThrough(p) ==
  /\ p.n_anchor = p.bsz
  /\ p.bsz = cfg.ts_batch_sz
  /\ ~p.shuffle
  /\ ~p.random_offset_anchor
  /\ ~p.bg_mix_parameter.passed
  /\ ~p.ir_mix_parameter.passed
  /\ ~p.speech_mix_parameter.passed
  /\ p.drop_the_last_non_full_batch = PyFalse

\* C9: every database-style policy (get_test_dummy_db_ds, both policies of
\* the pre-paired protocol, the database policy of the synthesized protocol,
\* get_custom_db_ds) has anchor count = batch size = test batch size,
\* shuffle off, random offset off, no augmentation parameter passed and
\* drop_the_last_non_full_batch False.
C9_DatabasePoliciesPassThrough ==
  Ok =>
    /\ After("get_test_dummy_db_ds") =>
         Len(ret.ds) = 1 /\ PassThrough(Policy(1))
    /\ After("get_custom_db_ds") =>
         Len(ret.ds) = 1 /\ PassThrough(Policy(1))
    /\ After("get_test_query_db_ds") =>
         /\ Len(ret.ds) = 2
         /\ PassThrough(Policy(2))
         /\ cfg.datasel_test_query_db = "unseen_icassp" =>
              PassThrough(Policy(1))

C9_Witness ==
  /\ Ok /\ After("get_test_query_db_ds")
  /\ cfg.datasel_test_query_db = "unseen_icassp"
  /\ ts_dummy_db_source_fps.some
  /\ cfg.ts_use_bg_aug
  /\ Len(Policy(1).fns) = PoolSize /\ Len(Policy(2).fns) = PoolSize
  /\ Policy(1).fns # Policy(2).fns

\* C10: no public operation changes the selector's stored state: the
\* configuration copies, the primary file lists and the nine augmentation
\* file lists all stay as the constructor left them.
C10_StateFrozen ==
  [][UNCHANGED <<cfg, augVars, srcVars>>]_vars

\* C10 as amended: the public operations change only the primary file lists
\* (tr_source_fps, tr_mix_fps, val_source_fps, ts_dummy_db_source_fps,
\* ts_query_icassp_fps, ts_db_icassp_fps, ts_query_db_unseen_fps), which
\* they resolve again on every call; the configuration copies, val_mix_fps
\* and the nine augmentation file lists stay as the constructor left them.
C10_ConfigAndAugFrozen ==
  [][UNCHANGED <<cfg, augVars, val_mix_fps>>]_vars

C10_Witness ==
  /\ After("get_val_ds")
  /\ val_source_fps.some /\ tr_source_fps.some
  /\ ts_dummy_db_source_fps.some /\ ts_query_db_unseen_fps.some
  /\ ~cfg.val_use_bg_aug /\ val_bg_fps = None
  /\ cfg.tr_use_bg_aug /\ tr_bg_fps.some

====
